---- MODULE Spec2Model ----
(***************************************************************************)
(* Model of web/src/instructions-view.ts: the InstructionsView element.    *)
(*                                                                         *)
(* The element has one reactive property, tripState (an untyped value),    *)
(* and a render() callback that the element's update cycle runs after the  *)
(* property was set.  render() returns a template (maneuver-image input,   *)
(* instruction text, rounded distance) when tripState.Navigating is        *)
(* truthy, returns nothing otherwise, and raises a TypeError when it reads *)
(* a property of an absent (undefined) object.                             *)
(*                                                                         *)
(* Numbers: a finite distance is held in fixed point, Scale units per      *)
(* metre, so that 123.4 m is representable; NaN and undefined are separate *)
(* kinds.  JavaScript's -0 is identified with 0 (it compares equal to 0    *)
(* and is displayed as "0").                                               *)
(***************************************************************************)
EXTENDS Integers, FiniteSets, Sequences, TLC

VARIABLES tripState, updatePending, rendered, meters, once, twice, stage

vars == <<tripState, updatePending, rendered, meters, once, twice, stage>>

viewVars == <<tripState, updatePending, rendered>>

roundVars == <<meters, once, twice, stage>>

(***************************************************************************)
(* Bounds of the model.                                                    *)
(***************************************************************************)
\* whole metres pushed as distanceToNextManeuver: -MaxMeters .. MaxMeters
MaxMeters == 26

\* fixed-point inputs given to roundToNearestTen: -MaxUnits .. MaxUnits
MaxUnits == 300

(***************************************************************************)
(* Numbers.                                                                *)
(***************************************************************************)
\* the literal 10 of roundToNearestTen
Ten == 10

\* fixed-point units per metre
Scale == Ten

Num(u) == [kind |-> "number", units |-> u]

NaN == [kind |-> "NaN", units |-> 0]

undefinedNumber == [kind |-> "undefined", units |-> 0]

Metres(n) == Num(n * Scale)

\* the distances of the specification's examples: 347 m and 123.4 m
ExampleUnits == {347 * Scale, 1234}

\* Math.round applied to the rational num / den (den > 0): the integer
\* nearest to it, the one closer to +Infinity when two are equally near.
MathRound_floor(num, den) == num \div den

MathRound_halfDown(num, den) == -((den - 2 * num) \div (2 * den))

MathRound_halfAway(num, den) ==
  IF num >= 0 THEN (2 * num + den) \div (2 * den)
              ELSE -((2 * (-num) + den) \div (2 * den))

MathRound(num, den) == (2 * num + den) \div (2 * den)

\* Math.round(meters / 10) without the multiplication by 10
roundToNearestTen_noScale(m) ==
  IF m.kind = "number" THEN Num(MathRound(m.units, Ten * Scale) * Scale)
                       ELSE NaN

\* Math.round(meters / 10) * 10; undefined / 10 and NaN / 10 are NaN
roundToNearestTen(m) ==
  IF m.kind = "number" THEN Num(MathRound(m.units, Ten * Scale) * Ten * Scale)
                       ELSE NaN

(***************************************************************************)
(* Trip states.                                                            *)
(***************************************************************************)
\* the value of a missing primaryContent.text
undefinedText == "<undefined>"

Texts == {"Turn right", "Continue", undefinedText}

noContent == [present |-> FALSE, text |-> undefinedText]

noInstruction == [present |-> FALSE, primaryContent |-> noContent]

noProgress == [present |-> FALSE, distanceToNextManeuver |-> undefinedNumber]

VisualInstructions ==
  {noInstruction}
    \cup {[present |-> TRUE, primaryContent |-> noContent]}
    \cup {[present |-> TRUE, primaryContent |-> [present |-> TRUE, text |-> t]] :
            t \in Texts}

Distances ==
  {Metres(n) : n \in -MaxMeters .. MaxMeters}
    \cup {Num(u) : u \in ExampleUnits}
    \cup {NaN, undefinedNumber}

Progresses ==
  {noProgress}
    \cup {[present |-> TRUE, distanceToNextManeuver |-> d] : d \in Distances}

Variant(v) ==
  [variant |-> v, visualInstruction |-> noInstruction, progress |-> noProgress]

null == Variant("null")

Navigating(vi, p) ==
  [variant |-> "Navigating", visualInstruction |-> vi, progress |-> p]

TripStates ==
  {null, Variant("Idle"), Variant("Arrived"), Variant("Complete")}
    \cup {Navigating(vi, p) : vi \in VisualInstructions, p \in Progresses}

(***************************************************************************)
(* render().                                                               *)
(***************************************************************************)
nothing ==
  [kind |-> "nothing", icon |-> noInstruction, text |-> undefinedText,
   distance |-> NaN]

TypeError ==
  [kind |-> "TypeError", icon |-> noInstruction, text |-> undefinedText,
   distance |-> NaN]

Template(vi, t, d) ==
  [kind |-> "template", icon |-> vi, text |-> t, distance |-> d]

\* the template of a Navigating payload, its bindings evaluated in order
NavigatingTemplate(ts) ==
  IF ~ts.visualInstruction.present THEN TypeError
  ELSE IF ~ts.visualInstruction.primaryContent.present THEN TypeError
  ELSE IF ~ts.progress.present THEN TypeError
  ELSE Template(ts.visualInstruction,
                ts.visualInstruction.primaryContent.text,
                roundToNearestTen(ts.progress.distanceToNextManeuver))

\* if (this.tripState) instead of if (this.tripState?.Navigating)
render_anyVariant(ts) ==
  IF ts.variant # "null" THEN NavigatingTemplate(ts) ELSE nothing

\* text ?? "" instead of text
render_defaultText(ts) ==
  IF ts.variant = "Navigating"
    THEN LET r == NavigatingTemplate(ts)
         IN  IF r.kind = "template" /\ r.text = undefinedText
               THEN [r EXCEPT !.text = ""]
               ELSE r
    ELSE nothing

\* the distance bound without the formatter
render_rawDistance(ts) ==
  IF ts.variant = "Navigating"
    THEN LET r == NavigatingTemplate(ts)
         IN  IF r.kind = "template"
               THEN [r EXCEPT !.distance = ts.progress.distanceToNextManeuver]
               ELSE r
    ELSE nothing

render(ts) ==
  IF ts.variant = "Navigating" THEN NavigatingTemplate(ts) ELSE nothing

(***************************************************************************)
(* The element: the host sets the property, the update cycle renders.      *)
(***************************************************************************)
ViewInit ==
  /\ tripState = null
  /\ updatePending = TRUE
  /\ rendered = nothing

RoundIdle ==
  /\ meters = NaN
  /\ once = NaN
  /\ twice = NaN
  /\ stage = "idle"

Init == ViewInit /\ RoundIdle

SetTripState(v) ==
  /\ tripState' = v
  /\ updatePending' = TRUE
  /\ UNCHANGED rendered
  /\ UNCHANGED roundVars

Update ==
  /\ updatePending
  /\ rendered' = render(tripState)
  /\ updatePending' = FALSE
  /\ UNCHANGED tripState
  /\ UNCHANGED roundVars

Next ==
  \/ \E v \in TripStates : SetTripState(v)
  \/ Update

Spec == Init /\ [][Next]_vars

(***************************************************************************)
(* The distance formatter on its own.                                      *)
(***************************************************************************)
RoundInputs ==
  {Num(u) : u \in -MaxUnits .. MaxUnits}
    \cup {Num(u) : u \in ExampleUnits}
    \cup {NaN}

RoundInit ==
  /\ ViewInit
  /\ meters \in RoundInputs
  /\ once = NaN
  /\ twice = NaN
  /\ stage = "input"

Round ==
  /\ stage = "input"
  /\ once' = roundToNearestTen(meters)
  /\ stage' = "once"
  /\ UNCHANGED <<meters, twice>>
  /\ UNCHANGED viewVars

RoundAgain ==
  /\ stage = "once"
  /\ twice' = roundToNearestTen(once)
  /\ stage' = "twice"
  /\ UNCHANGED <<meters, once>>
  /\ UNCHANGED viewVars

RoundNext == Round \/ RoundAgain

SpecRound == RoundInit /\ [][RoundNext]_vars

(***************************************************************************)
(* Properties of the element (checked under Spec).                         *)
(***************************************************************************)
\* the payload has the objects render() reads properties of
Conforms(ts) ==
  /\ ts.variant = "Navigating"
  /\ ts.visualInstruction.present
  /\ ts.visualInstruction.primaryContent.present
  /\ ts.progress.present

Abs(x) == IF x < 0 THEN -x ELSE x

Sign(x) == IF x < 0 THEN -1 ELSE IF x > 0 THEN 1 ELSE 0

\* C1: once the update cycle has run, a tripState that is null or whose
\* variant is not Navigating has rendered nothing: no template, no text, no
\* distance, and no visualInstruction given to the maneuver image.
C1_NothingUnlessNavigating ==
  (~updatePending /\ tripState.variant # "Navigating") => rendered = nothing

C1_Witness ==
  /\ ~updatePending
  /\ tripState = Variant("Idle")
  /\ rendered = nothing

\* C2: a Navigating payload with visualInstruction.primaryContent and
\* progress renders a template, and the text of every rendered template is
\* the payload's visualInstruction.primaryContent.text itself (a missing
\* text stays undefined).
C2_TextVerbatim ==
  ~updatePending =>
    /\ Conforms(tripState) => rendered.kind = "template"
    /\ rendered.kind = "template" =>
         rendered.text = tripState.visualInstruction.primaryContent.text

C2_Witness ==
  /\ ~updatePending
  /\ rendered.kind = "template"
  /\ tripState.visualInstruction.primaryContent.text = "Turn right"
  /\ rendered.text = "Turn right"

\* C3: every rendered template gives the payload's visualInstruction itself
\* to the maneuver image and shows roundToNearestTen of the payload's
\* progress.distanceToNextManeuver; "Turn right" at 347 m is rendered as
\* "Turn right", 350 m, with the given visualInstruction as the image input.
C3_PassThrough ==
  ~updatePending =>
    /\ Conforms(tripState) => rendered.kind = "template"
    /\ rendered.kind = "template" =>
         /\ rendered.icon = tripState.visualInstruction
         /\ rendered.distance =
              roundToNearestTen(tripState.progress.distanceToNextManeuver)
    /\ ( /\ Conforms(tripState)
         /\ tripState.visualInstruction.primaryContent.text = "Turn right"
         /\ tripState.progress.distanceToNextManeuver = Metres(347) ) =>
         /\ rendered.text = "Turn right"
         /\ rendered.distance = Metres(350)
         /\ rendered.icon =
              [present |-> TRUE,
               primaryContent |-> [present |-> TRUE, text |-> "Turn right"]]

C3_Witness ==
  /\ ~updatePending
  /\ tripState.variant = "Navigating"
  /\ tripState.progress.distanceToNextManeuver = Metres(347)
  /\ rendered.kind = "template"
  /\ rendered.distance = Metres(350)
  /\ rendered.icon = tripState.visualInstruction

\* C7 as stated: in every rendered template the distance is an integer
\* multiple of 10 with the same sign as the payload's distance.
C7_MultipleOfTenSameSign ==
  (~updatePending /\ rendered.kind = "template") =>
    /\ rendered.distance.kind = "number"
    /\ rendered.distance.units % (Ten * Scale) = 0
    /\ Sign(rendered.distance.units) =
         Sign(tripState.progress.distanceToNextManeuver.units)

\* C7 amended: in every rendered template the distance is NaN when the
\* payload's distance is NaN or missing, and otherwise an integer multiple
\* of 10 that is never of the opposite sign: it is >= 0 when the payload's
\* distance is >= 0 and <= 0 when that is <= 0 (it is 0 for 0 < m < 5).
C7_MultipleOfTenNeverOppositeSign ==
  (~updatePending /\ rendered.kind = "template") =>
    LET d == tripState.progress.distanceToNextManeuver
        r == rendered.distance
    IN  IF d.kind = "number"
          THEN /\ r.kind = "number"
               /\ r.units % (Ten * Scale) = 0
               /\ d.units >= 0 => r.units >= 0
               /\ d.units <= 0 => r.units <= 0
          ELSE r.kind = "NaN"

C7_Witness ==
  /\ ~updatePending
  /\ rendered.kind = "template"
  /\ tripState.progress.distanceToNextManeuver = Metres(3)
  /\ rendered.distance = Metres(0)

\* C8 as stated: once the update cycle has run, a template is displayed if
\* and only if the most recently pushed tripState has the Navigating
\* variant, and what is displayed is computed from that tripState alone.
C8_DisplayedIffNavigating ==
  ~updatePending =>
    /\ (rendered.kind = "template") <=> (tripState.variant = "Navigating")
    /\ rendered.kind = "template" =>
         rendered =
           Template(tripState.visualInstruction,
                    tripState.visualInstruction.primaryContent.text,
                    roundToNearestTen(tripState.progress.distanceToNextManeuver))

\* C9 as stated: render() never raises an error, whatever tripState was
\* pushed.
C9_NoFailurePath == rendered.kind # "TypeError"

(***************************************************************************)
(* Properties of roundToNearestTen (checked under SpecRound).              *)
(***************************************************************************)
TenMetres == Ten * Scale

\* the multiples of 10 m around every input of the model
Multiples == {k * TenMetres : k \in -(MaxUnits + 3470) .. (MaxUnits + 3470)}

\* C4: for every distance m >= 0, roundToNearestTen(m) is a multiple of 10
\* and differs from m by at most 5.
C4_MultipleWithinFive ==
  (stage # "input" /\ meters.kind = "number" /\ meters.units >= 0) =>
    /\ once.kind = "number"
    /\ once.units % TenMetres = 0
    /\ 2 * Abs(once.units - meters.units) <= TenMetres

C4_Witness ==
  /\ stage = "once"
  /\ meters = Metres(5)
  /\ once = Metres(10)

\* C5: roundToNearestTen(roundToNearestTen(m)) = roundToNearestTen(m) for
\* every finite m, negative m included.
C5_Idempotent ==
  (stage = "twice" /\ meters.kind = "number") => twice = once

C5_Witness ==
  /\ stage = "twice"
  /\ meters = Metres(-15)
  /\ once = Metres(-10)
  /\ twice = Metres(-10)

\* C6: for every distance m >= 0, roundToNearestTen(m) is the multiple of
\* 10 nearest to m, the larger one when two are equally near; 0 -> 0,
\* 4 -> 0, 5 -> 10, 12 -> 10, 17 -> 20 and 123.4 -> 120.
C6_NearestTiesUp ==
  (stage # "input" /\ meters.kind = "number" /\ meters.units >= 0) =>
    /\ once.kind = "number"
    /\ once.units \in Multiples
    /\ \A q \in Multiples :
         /\ Abs(once.units - meters.units) <= Abs(q - meters.units)
         /\ (Abs(once.units - meters.units) = Abs(q - meters.units)) =>
              q <= once.units
    /\ meters = Metres(0) => once = Metres(0)
    /\ meters = Metres(4) => once = Metres(0)
    /\ meters = Metres(5) => once = Metres(10)
    /\ meters = Metres(12) => once = Metres(10)
    /\ meters = Metres(17) => once = Metres(20)
    /\ meters = Num(1234) => once = Metres(120)

C6_Witness ==
  /\ stage = "once"
  /\ meters = Num(1234)
  /\ once = Metres(120)

\* C10 as stated: for every finite m, roundToNearestTen(m) is 10 times m / 10
\* rounded to the nearest integer, ties away from zero.
C10_HalfAwayFromZero ==
  (stage # "input" /\ meters.kind = "number") =>
    once = Num(MathRound_halfAway(meters.units, TenMetres) * TenMetres)

\* C10 amended: for every finite m, roundToNearestTen(m) is 10 times m / 10
\* rounded to the nearest integer, ties towards +Infinity: the multiple r of
\* 10 with r - 5 <= m < r + 5 (-15 gives -10, 15 gives 20).
C10_HalfTowardsPlusInfinity ==
  (stage # "input" /\ meters.kind = "number") =>
    /\ once.kind = "number"
    /\ once.units % TenMetres = 0
    /\ 2 * (once.units - meters.units) <= TenMetres
    /\ 2 * (meters.units - once.units) < TenMetres

C10_Witness ==
  /\ stage = "once"
  /\ meters = Metres(-15)
  /\ once = Metres(-10)

====
